---------------------------- MODULE Spec2Model ----------------------------
(***************************************************************************)
(* A model of the tpa2016d2 driver: the register map (src/src/regmap.rs),  *)
(* the bit-field encode/decode of each register, and the controller        *)
(* operations of src/src/lib.rs, which mutate the shadow register map and   *)
(* talk to the amplifier through a blocking two-wire transport.             *)
(*                                                                         *)
(* The transport is the environment: every call to it is logged, and its   *)
(* outcome (success, an error, the byte read) is chosen nondeterministically*)
(* from small sets.  An operation is one atomic step (the driver is         *)
(* single-owner and synchronous).                                           *)
(***************************************************************************)
EXTENDS Integers, Naturals, Sequences, FiniteSets, TLC

VARIABLES
    regmap,   \* Tpa2016d2.regmap: the shadow register map
    log,      \* every transport transaction issued since new(), in order
    last,     \* the most recent operation: name, arguments, shadow before, result
    nops,     \* number of operations called since new()
    input     \* the input of a pure-function application (SpecPure only)

vars == <<regmap, log, last, nops, input>>

(***************************************************************************)
(* Bounds of the model.                                                    *)
(***************************************************************************)
\* operations per run of the controller
MaxOps == 2
\* operations per run of the masking specification (all 256 argument values)
MaxMaskOps == 1
\* largest quotient (ms / quantum) the conversion inputs are built from
MaxQuot == 300
\* operations per run of the raw-read specification
MaxRawOps == 2

MaxStickyOps == 3

(***************************************************************************)
(* u8 arithmetic.                                                          *)
(***************************************************************************)
U8 == 0..255

RECURSIVE BitAnd(_, _)
BitAnd(a, b) ==
    IF a = 0 \/ b = 0 THEN 0
    ELSE (a % 2) * (b % 2) + 2 * BitAnd(a \div 2, b \div 2)

RECURSIVE BitOr(_, _)
BitOr(a, b) ==
    IF a = 0 THEN b
    ELSE IF b = 0 THEN a
    ELSE (IF a % 2 = 1 \/ b % 2 = 1 THEN 1 ELSE 0) + 2 * BitOr(a \div 2, b \div 2)

\* a << n and a >> n on u8
Shl(a, n) == (a * (2 ^ n)) % 256

Shr(a, n) == a \div (2 ^ n)

\* `x as u8` of an unsigned integer
AsU8(x) == x % 256

(***************************************************************************)
(* regmap.rs: Register1                                                    *)
(***************************************************************************)
Register1_default ==
    [SPK_EN_R |-> TRUE, SPK_EN_L |-> TRUE, SWS |-> FALSE, FAULT_R |-> FALSE,
     FAULT_L |-> FALSE, Thermal |-> FALSE, NG_EN |-> TRUE]

\* variant of as_byte that leaves out `r |= 1 << 1`
Register1_as_byte_no_reserved(self) ==
    LET r0 == 0
        r1 == IF self.SPK_EN_R THEN BitOr(r0, Shl(1, 7)) ELSE r0
        r2 == IF self.SPK_EN_L THEN BitOr(r1, Shl(1, 6)) ELSE r1
        r3 == IF self.SWS THEN BitOr(r2, Shl(1, 5)) ELSE r2
        r4 == IF self.FAULT_R THEN BitOr(r3, Shl(1, 4)) ELSE r3
        r5 == IF self.FAULT_L THEN BitOr(r4, Shl(1, 3)) ELSE r4
        r6 == IF self.Thermal THEN BitOr(r5, Shl(1, 2)) ELSE r5
        r8 == IF self.NG_EN THEN BitOr(r6, 1) ELSE r6
    IN  r8

Register1_as_byte(self) ==
    LET r0 == 0
        r1 == IF self.SPK_EN_R THEN BitOr(r0, Shl(1, 7)) ELSE r0
        r2 == IF self.SPK_EN_L THEN BitOr(r1, Shl(1, 6)) ELSE r1
        r3 == IF self.SWS THEN BitOr(r2, Shl(1, 5)) ELSE r2
        r4 == IF self.FAULT_R THEN BitOr(r3, Shl(1, 4)) ELSE r3
        r5 == IF self.FAULT_L THEN BitOr(r4, Shl(1, 3)) ELSE r4
        r6 == IF self.Thermal THEN BitOr(r5, Shl(1, 2)) ELSE r5
        r7 == BitOr(r6, Shl(1, 1))
        r8 == IF self.NG_EN THEN BitOr(r7, 1) ELSE r7
    IN  r8

Register1_update(self, new) ==
    [SPK_EN_R |-> BitAnd(new, Shl(1, 7)) # 0,
     SPK_EN_L |-> BitAnd(new, Shl(1, 6)) # 0,
     SWS      |-> BitAnd(new, Shl(1, 5)) # 0,
     FAULT_R  |-> BitAnd(new, Shl(1, 4)) # 0,
     FAULT_L  |-> BitAnd(new, Shl(1, 3)) # 0,
     Thermal  |-> BitAnd(new, Shl(1, 2)) # 0,
     NG_EN    |-> BitAnd(new, 1) # 0]

(***************************************************************************)
(* regmap.rs: U6Register, a tuple struct around one u8                     *)
(***************************************************************************)
\* variant of set with a 5-bit mask
U6Register_set_mask5(self, value) == BitAnd(value, 31)

U6Register_set(self, value) == BitAnd(value, 63)

U6Register_as_byte(self) == BitAnd(self, 63)

U6Register_update(self, val) == BitAnd(val, 63)

(***************************************************************************)
(* regmap.rs: Register6                                                    *)
(***************************************************************************)
Register6_default ==
    [output_limiter_disable |-> FALSE,
     noise_gate_threshold   |-> 1,
     output_limiter_level   |-> 26]

Register6_as_byte(self) ==
    LET r0 == 0
        r1 == IF self.output_limiter_disable THEN BitOr(r0, Shl(1, 7)) ELSE r0
        r2 == BitOr(r1, Shl(BitAnd(self.noise_gate_threshold, 3), 5))
        r3 == BitOr(r2, BitAnd(self.output_limiter_level, 31))
    IN  r3

Register6_update(self, val) ==
    [output_limiter_disable |-> BitAnd(val, Shl(1, 7)) # 0,
     noise_gate_threshold   |-> BitAnd(Shr(val, 5), 3),
     output_limiter_level   |-> BitAnd(val, 31)]

(***************************************************************************)
(* regmap.rs: Register7                                                    *)
(***************************************************************************)
Register7_default == [max_gain |-> 12, compression_ratio |-> 2]

Register7_as_byte(self) ==
    BitOr(Shl(BitAnd(self.max_gain, 15), 4), BitAnd(self.compression_ratio, 3))

\* variant of update that keeps three bits of the gain
Register7_update_3bit_gain(self, val) ==
    [max_gain |-> BitAnd(Shr(val, 4), 7), compression_ratio |-> BitAnd(val, 3)]

Register7_update(self, val) ==
    [max_gain |-> Shr(val, 4), compression_ratio |-> BitAnd(val, 3)]

(***************************************************************************)
(* regmap.rs: RegisterMap                                                  *)
(***************************************************************************)
\* variant of default with another reset value of the hold time
RegisterMap_default_hold_one ==
    [reg1      |-> Register1_default,
     atk_time  |-> 5,
     rel_time  |-> 11,
     hold_time |-> 1,
     fixedGain |-> 6,
     reg6      |-> Register6_default,
     reg7      |-> Register7_default]

RegisterMap_default ==
    [reg1      |-> Register1_default,
     atk_time  |-> 5,
     rel_time  |-> 11,
     hold_time |-> 0,
     fixedGain |-> 6,
     reg6      |-> Register6_default,
     reg7      |-> Register7_default]

reg_as_byte(self, idx) ==
    CASE idx = 1 -> Register1_as_byte(self.reg1)
      [] idx = 2 -> U6Register_as_byte(self.atk_time)
      [] idx = 3 -> U6Register_as_byte(self.rel_time)
      [] idx = 4 -> U6Register_as_byte(self.hold_time)
      [] idx = 5 -> U6Register_as_byte(self.fixedGain)
      [] idx = 6 -> Register6_as_byte(self.reg6)
      [] idx = 7 -> Register7_as_byte(self.reg7)
      [] OTHER   -> 0

\* RegisterMap::update_map is called by lib.rs (sync, get_faults) and is not
\* part of regmap.rs; it is modelled from the specification's `apply(address,
\* byte)`: the byte is decoded into the register at that address, replacing
\* its prior field values entirely.
update_map(self, idx, val) ==
    CASE idx = 1 -> [self EXCEPT !.reg1 = Register1_update(@, val)]
      [] idx = 2 -> [self EXCEPT !.atk_time = U6Register_update(@, val)]
      [] idx = 3 -> [self EXCEPT !.rel_time = U6Register_update(@, val)]
      [] idx = 4 -> [self EXCEPT !.hold_time = U6Register_update(@, val)]
      [] idx = 5 -> [self EXCEPT !.fixedGain = U6Register_update(@, val)]
      [] idx = 6 -> [self EXCEPT !.reg6 = Register6_update(@, val)]
      [] idx = 7 -> [self EXCEPT !.reg7 = Register7_update(@, val)]
      [] OTHER   -> self


(***************************************************************************)
(* lib.rs: constants, enums, results                                       *)
(***************************************************************************)
\* variant of the bus address: the 8-bit datasheet address, not shifted
TPA2016_I2C_ADDR_unshifted == Shl(88, 1)

\* const TPA2016_I2C_ADDR: u8 = 0xB0 >> 1
TPA2016_I2C_ADDR == Shr(176, 1)

CompressionRatio == {"Ratio1", "Ratio2", "Ratio4", "Ratio8"}

\* `ratio as u8`
CompressionRatio_as_u8(r) ==
    CASE r = "Ratio1" -> 0 [] r = "Ratio2" -> 1 [] r = "Ratio4" -> 2 [] r = "Ratio8" -> 3

NoiseGateThreshold == {"Ngt20mV", "Ngt10mV", "Ngt4mV", "Ngt1mV"}

\* `val as u8`
NoiseGateThreshold_as_u8(t) ==
    CASE t = "Ngt20mV" -> 3 [] t = "Ngt10mV" -> 2 [] t = "Ngt4mV" -> 1 [] t = "Ngt1mV" -> 0

AgcPreset == {"Pop", "Classical", "Jazz", "Rap", "Rock", "Voice"}

\* Result<T, E>: Ok(val) or Err(err); val is 0 for Ok(())
OkR(v) == [ok |-> TRUE, val |-> v, err |-> "none"]

ErrR(e) == [ok |-> FALSE, val |-> 0, err |-> e]

\* struct Faults; NoFaults stands for "no Faults value was returned"
NoFaults == [fault_r |-> FALSE, fault_l |-> FALSE, thermal |-> FALSE]

(***************************************************************************)
(* The transport (embedded_hal i2c::Write + i2c::WriteRead): what it may   *)
(* answer.  The error type E is opaque; two values tell errors apart.      *)
(***************************************************************************)
Errors == {"E1", "E2"}

\* outcomes of i2c.write
WriteResults == {OkR(0)} \cup {ErrR(e) : e \in Errors}

\* bytes the device answers to get_faults' read of register 1
FaultBytes == {0, 4, 8, 16, 28, 195, 227, 253, 255}

\* bytes the device answers to the reads of sync
SyncBytes == {29, 226}

\* outcomes of i2c.write_read on behalf of get_faults: Ok(the byte put in regbuf)
FaultReadResults == {OkR(b) : b \in FaultBytes} \cup {ErrR(e) : e \in Errors}

\* the transport's answers to the six writes of a preset, by register address:
\* all succeed, or the write to address k fails (later ones are never asked)
WriteOracles ==
    {[i \in 2..7 |-> IF i = k THEN ErrR(e) ELSE OkR(0)] : k \in 2..8, e \in Errors}

\* the transport's answers to the seven reads of sync, by register address
ReadOracles ==
    {[i \in 1..7 |-> OkR(bs[i])] : bs \in [1..7 -> SyncBytes]}
    \cup UNION {{[i \in 1..7 |-> IF i < k THEN OkR(bs[i])
                                 ELSE IF i = k THEN ErrR(e) ELSE OkR(0)] :
                    bs \in [1..(k - 1) -> SyncBytes], e \in Errors} : k \in 1..7}

\* argument values tried for the u8 parameters and for device_reg's index
ByteArgs == {0, 5, 63, 64, 200, 255}

IdxArgs == 0..8 \cup {255}

\* one logged transport transaction
Txn(kind, bytes, res) ==
    [kind |-> kind, addr |-> TPA2016_I2C_ADDR, bytes |-> bytes, res |-> res]

(***************************************************************************)
(* lib.rs: the controller.  `self` is [regmap, log]; an operation yields   *)
(* [self |-> the controller afterwards, ret |-> its Result].               *)
(***************************************************************************)
new(i2c) == [regmap |-> RegisterMap_default, log |-> i2c]

\* variant of write_reg that repeats a failed write once
write_reg_retry(self, regaddr, value, out) ==
    LET regbuf == <<regaddr, value>>
        once   == Append(self.log, Txn("write", regbuf, out))
    IN  [self |-> [self EXCEPT !.log = IF out.ok THEN once
                                       ELSE Append(once, Txn("write", regbuf, out))],
         ret  |-> out]

write_reg(self, regaddr, value, out) ==
    LET regbuf == <<regaddr, value>>
    IN  [self |-> [self EXCEPT !.log = Append(@, Txn("write", regbuf, out))],
         ret  |-> out]

write_regmap_reg(self, idx, out) ==
    LET b == reg_as_byte(self.regmap, idx)
    IN  write_reg(self, idx, b, out)

\* variant of read_reg without the range check on regidx
read_reg_unchecked(self, regidx, out) ==
    LET s1 == [self EXCEPT !.log = Append(@, Txn("write_read", <<regidx>>, out))]
    IN  IF ~out.ok THEN [self |-> s1, ret |-> ErrR(out.err)]
        ELSE [self |-> s1, ret |-> OkR(out.val)]

read_reg(self, regidx, out) ==
    IF regidx < 1 \/ regidx > 7
    THEN [self |-> self, ret |-> OkR(0)]
    ELSE LET s1 == [self EXCEPT !.log = Append(@, Txn("write_read", <<regidx>>, out))]
         IN  IF ~out.ok THEN [self |-> s1, ret |-> ErrR(out.err)]
             ELSE [self |-> s1, ret |-> OkR(out.val)]

\* variant of the sync loop that skips a register whose read failed, reads the
\* remaining ones and reports the first error at the end
RECURSIVE sync_loop_continue(_, _, _)
sync_loop_continue(self, i, outs) ==
    IF i > 7 THEN [self |-> self, ret |-> OkR(0)]
    ELSE LET r == read_reg(self, i, outs[i])
         IN  IF ~r.ret.ok
             THEN [self |-> sync_loop_continue(r.self, i + 1, outs).self,
                   ret  |-> ErrR(r.ret.err)]
             ELSE sync_loop_continue(
                      [r.self EXCEPT !.regmap = update_map(@, i, r.ret.val)],
                      i + 1, outs)

RECURSIVE sync_loop(_, _, _)
sync_loop(self, i, outs) ==
    IF i > 7 THEN [self |-> self, ret |-> OkR(0)]
    ELSE LET r == read_reg(self, i, outs[i])
         IN  IF ~r.ret.ok THEN [self |-> r.self, ret |-> ErrR(r.ret.err)]
             ELSE sync_loop([r.self EXCEPT !.regmap = update_map(@, i, r.ret.val)],
                            i + 1, outs)

\* variant of sync whose loop starts at register 2
sync_from_two(self, outs) == sync_loop(self, 2, outs)

sync(self, outs) == sync_loop(self, 1, outs)

release(self) == self.log

\* variant of device_reg that reads the register from the device first, the
\* device answering with the byte the shadow encodes to
device_reg_refresh(self, idx) ==
    LET r == read_reg(self, idx, OkR(reg_as_byte(self.regmap, idx)))
    IN  [self |-> r.self, ret |-> OkR(reg_as_byte(r.self.regmap, idx))]

device_reg(self, idx) ==
    [self |-> self, ret |-> OkR(reg_as_byte(self.regmap, idx))]

\* variant of speaker_enable that also takes the device out of shutdown
speaker_enable_wake(self, le, re, out) ==
    LET s1 == [self EXCEPT !.regmap.reg1.SPK_EN_L = le]
        s2 == [s1 EXCEPT !.regmap.reg1.SPK_EN_R = re]
        s3 == [s2 EXCEPT !.regmap.reg1.SWS = FALSE]
    IN  write_regmap_reg(s3, 1, out)

speaker_enable(self, le, re, out) ==
    LET s1 == [self EXCEPT !.regmap.reg1.SPK_EN_L = le]
        s2 == [s1 EXCEPT !.regmap.reg1.SPK_EN_R = re]
    IN  write_regmap_reg(s2, 1, out)

\* variant of get_faults that answers from the shadow as it was before the read
get_faults_cached(self, out) ==
    LET r == read_reg(self, 1, out)
    IN  IF ~r.ret.ok
        THEN [self |-> r.self, ret |-> ErrR(r.ret.err), faults |-> NoFaults]
        ELSE LET s1 == [r.self EXCEPT !.regmap = update_map(@, 1, r.ret.val)]
             IN  [self |-> s1, ret |-> OkR(0),
                  faults |-> [fault_r |-> self.regmap.reg1.FAULT_R,
                              fault_l |-> self.regmap.reg1.FAULT_L,
                              thermal |-> self.regmap.reg1.Thermal]]

get_faults(self, out) ==
    LET r == read_reg(self, 1, out)
    IN  IF ~r.ret.ok
        THEN [self |-> r.self, ret |-> ErrR(r.ret.err), faults |-> NoFaults]
        ELSE LET s1 == [r.self EXCEPT !.regmap = update_map(@, 1, r.ret.val)]
             IN  [self |-> s1, ret |-> OkR(0),
                  faults |-> [fault_r |-> s1.regmap.reg1.FAULT_R,
                              fault_l |-> s1.regmap.reg1.FAULT_L,
                              thermal |-> s1.regmap.reg1.Thermal]]

\* variant of disable_device that writes the shutdown flag over a freshly
\* defaulted register 1
disable_device_reset(self, out) ==
    write_regmap_reg([self EXCEPT !.regmap.reg1 = [Register1_default EXCEPT !.SWS = TRUE]],
                     1, out)

disable_device(self, out) ==
    write_regmap_reg([self EXCEPT !.regmap.reg1.SWS = TRUE], 1, out)

noise_gate(self, enable, out) ==
    write_regmap_reg([self EXCEPT !.regmap.reg1.NG_EN = enable], 1, out)

set_attack_time(self, val, out) ==
    write_regmap_reg([self EXCEPT !.regmap.atk_time = U6Register_set(@, val)], 2, out)

set_release_time(self, val, out) ==
    write_regmap_reg([self EXCEPT !.regmap.rel_time = U6Register_set(@, val)], 3, out)

set_hold_time(self, val, out) ==
    write_regmap_reg([self EXCEPT !.regmap.hold_time = U6Register_set(@, val)], 4, out)

gain(self, g, out) ==
    write_regmap_reg([self EXCEPT !.regmap.fixedGain = U6Register_set(@, g)], 5, out)

noise_gate_threshold(self, val, out) ==
    write_regmap_reg(
        [self EXCEPT !.regmap.reg6.noise_gate_threshold = NoiseGateThreshold_as_u8(val)],
        6, out)

output_limiter_level(self, val, out) ==
    write_regmap_reg([self EXCEPT !.regmap.reg6.output_limiter_level = val], 6, out)

compression_ratio(self, ratio, out) ==
    write_regmap_reg(
        [self EXCEPT !.regmap.reg7.compression_ratio = CompressionRatio_as_u8(ratio)],
        7, out)

\* const fn release_time_to_u6(v: u32) -> u8
RELEASE_QUANTUM == 1644

HOLD_QUANTUM == 137

\* variant of release_time_to_u6 that clamps the quotient to 6 bits
release_time_to_u6_clamped(v) ==
    IF v \div RELEASE_QUANTUM > 63 THEN 63 ELSE AsU8(v \div RELEASE_QUANTUM)

release_time_to_u6(v) == AsU8(v \div RELEASE_QUANTUM)

\* variant of hold_time_to_u6 that divides by the release quantum
hold_time_to_u6_release_quantum(v) == AsU8(v \div RELEASE_QUANTUM)

hold_time_to_u6(v) == AsU8(v \div HOLD_QUANTUM)

\* the `match preset` table of set_agc_preset
AgcPresetTuple(preset) ==
    LET T(cr, atk, rel, hold, fg, lim) ==
            [cr |-> cr, atk |-> atk, rel_time |-> rel, hold_time |-> hold,
             fixed_gain |-> fg, limiter_level |-> lim]
    IN  CASE preset = "Pop"       -> T("Ratio4", 2, 986, 137, 6, 60)
          [] preset = "Classical" -> T("Ratio2", 2, 1150, 137, 6, 61)
          [] preset = "Jazz"      -> T("Ratio2", 6, 3288, 0, 6, 61)
          [] preset = "Rap"       -> T("Ratio4", 2, 1640, 0, 6, 60)
          [] preset = "Rock"      -> T("Ratio2", 3, 4110, 0, 6, 61)
          [] preset = "Voice"     -> T("Ratio4", 2, 1640, 0, 6, 62)

\* variant of the write loop that goes on after a failed write and reports the
\* first error at the end
RECURSIVE preset_write_loop_continue(_, _, _)
preset_write_loop_continue(self, rid, outs) ==
    IF rid > 7 THEN [self |-> self, ret |-> OkR(0)]
    ELSE LET w    == write_regmap_reg(self, rid, outs[rid])
             rest == preset_write_loop_continue(w.self, rid + 1, outs)
         IN  IF ~w.ret.ok THEN [self |-> rest.self, ret |-> ErrR(w.ret.err)]
             ELSE rest

\* for rid in 2..=7 { self.write_regmap_reg(rid)?; }  Ok(())
RECURSIVE preset_write_loop(_, _, _)
preset_write_loop(self, rid, outs) ==
    IF rid > 7 THEN [self |-> self, ret |-> OkR(0)]
    ELSE LET w == write_regmap_reg(self, rid, outs[rid])
         IN  IF ~w.ret.ok THEN [self |-> w.self, ret |-> ErrR(w.ret.err)]
             ELSE preset_write_loop(w.self, rid + 1, outs)

\* variant of the write loop, and of the preset, going from address 7 down to 2
RECURSIVE preset_write_loop_down(_, _, _)
preset_write_loop_down(self, rid, outs) ==
    IF rid > 7 THEN [self |-> self, ret |-> OkR(0)]
    ELSE LET w == write_regmap_reg(self, 9 - rid, outs[9 - rid])
         IN  IF ~w.ret.ok THEN [self |-> w.self, ret |-> ErrR(w.ret.err)]
             ELSE preset_write_loop_down(w.self, rid + 1, outs)

set_agc_preset_descending(self, preset, outs) ==
    LET t  == AgcPresetTuple(preset)
        rm == [self.regmap EXCEPT
                 !.atk_time  = U6Register_set(@, t.atk),
                 !.rel_time  = U6Register_set(@, release_time_to_u6(t.rel_time)),
                 !.hold_time = U6Register_set(@, hold_time_to_u6(t.hold_time)),
                 !.fixedGain = U6Register_set(@, t.fixed_gain),
                 !.reg6.output_limiter_level = t.limiter_level,
                 !.reg7.compression_ratio = CompressionRatio_as_u8(t.cr)]
    IN  preset_write_loop_down([self EXCEPT !.regmap = rm], 2, outs)

\* variant of the preset that assigns the field of each register right before
\* writing that register, instead of assigning all six fields first
preset_assign_field(rm, t, rid) ==
    CASE rid = 2 -> [rm EXCEPT !.atk_time = U6Register_set(@, t.atk)]
      [] rid = 3 -> [rm EXCEPT !.rel_time =
                        U6Register_set(@, release_time_to_u6(t.rel_time))]
      [] rid = 4 -> [rm EXCEPT !.hold_time =
                        U6Register_set(@, hold_time_to_u6(t.hold_time))]
      [] rid = 5 -> [rm EXCEPT !.fixedGain = U6Register_set(@, t.fixed_gain)]
      [] rid = 6 -> [rm EXCEPT !.reg6.output_limiter_level = t.limiter_level]
      [] rid = 7 -> [rm EXCEPT !.reg7.compression_ratio = CompressionRatio_as_u8(t.cr)]

RECURSIVE preset_interleaved_loop(_, _, _, _)
preset_interleaved_loop(self, t, rid, outs) ==
    IF rid > 7 THEN [self |-> self, ret |-> OkR(0)]
    ELSE LET s1 == [self EXCEPT !.regmap = preset_assign_field(@, t, rid)]
             w  == write_regmap_reg(s1, rid, outs[rid])
         IN  IF ~w.ret.ok THEN [self |-> w.self, ret |-> ErrR(w.ret.err)]
             ELSE preset_interleaved_loop(w.self, t, rid + 1, outs)

set_agc_preset_interleaved(self, preset, outs) ==
    preset_interleaved_loop(self, AgcPresetTuple(preset), 2, outs)

set_agc_preset(self, preset, outs) ==
    LET t         == AgcPresetTuple(preset)
        rel_time  == release_time_to_u6(t.rel_time)
        hold_time == hold_time_to_u6(t.hold_time)
        rm == [self.regmap EXCEPT
                 !.atk_time  = U6Register_set(@, t.atk),
                 !.rel_time  = U6Register_set(@, rel_time),
                 !.hold_time = U6Register_set(@, hold_time),
                 !.fixedGain = U6Register_set(@, t.fixed_gain),
                 !.reg6.output_limiter_level = t.limiter_level,
                 !.reg7.compression_ratio = CompressionRatio_as_u8(t.cr)]
    IN  preset_write_loop([self EXCEPT !.regmap = rm], 2, outs)

(***************************************************************************)
(* The state machine: one action per public operation.                     *)
(***************************************************************************)
Self == [regmap |-> regmap, log |-> log]

NoInput == [kind |-> "none", ms |-> 0, reg |-> RegisterMap_default]

\* the controller right after Tpa2016d2::new(i2c) on a transport with no traffic
Init ==
    /\ regmap = new(<<>>).regmap
    /\ log = new(<<>>).log
    /\ last = [op |-> "new", arg |-> <<>>, pre |-> RegisterMap_default, start |-> 0,
               ret |-> OkR(0), faults |-> NoFaults]
    /\ nops = 0
    /\ input = NoInput

\* the controller exists (not released) and the run may go on
Alive == nops < MaxOps /\ last.op # "release"

\* the effect of calling operation `op` with `arg`, r being what it yields
Step(op, arg, r, faults) ==
    /\ regmap' = r.self.regmap
    /\ log' = r.self.log
    /\ last' = [op |-> op, arg |-> arg, pre |-> regmap, start |-> Len(log),
                ret |-> r.ret, faults |-> faults]
    /\ nops' = nops + 1
    /\ UNCHANGED input

Call_sync ==
    /\ Alive
    /\ \E outs \in ReadOracles : Step("sync", <<>>, sync(Self, outs), NoFaults)

Call_release ==
    /\ Alive
    /\ log' = release(Self)
    /\ last' = [op |-> "release", arg |-> <<>>, pre |-> regmap, start |-> Len(log),
                ret |-> OkR(0), faults |-> NoFaults]
    /\ nops' = nops + 1
    /\ UNCHANGED <<regmap, input>>

Call_device_reg ==
    /\ Alive
    /\ \E idx \in IdxArgs : Step("device_reg", <<idx>>, device_reg(Self, idx), NoFaults)

Call_speaker_enable ==
    /\ Alive
    /\ \E le \in BOOLEAN, re \in BOOLEAN, out \in WriteResults :
          Step("speaker_enable", <<le, re>>, speaker_enable(Self, le, re, out), NoFaults)

Call_get_faults ==
    /\ Alive
    /\ \E out \in FaultReadResults :
          LET r == get_faults(Self, out) IN Step("get_faults", <<>>, r, r.faults)

Call_disable_device ==
    /\ Alive
    /\ \E out \in WriteResults :
          Step("disable_device", <<>>, disable_device(Self, out), NoFaults)

Call_noise_gate ==
    /\ Alive
    /\ \E enable \in BOOLEAN, out \in WriteResults :
          Step("noise_gate", <<enable>>, noise_gate(Self, enable, out), NoFaults)

Call_set_attack_time ==
    /\ Alive
    /\ \E val \in ByteArgs, out \in WriteResults :
          Step("set_attack_time", <<val>>, set_attack_time(Self, val, out), NoFaults)

Call_set_release_time ==
    /\ Alive
    /\ \E val \in ByteArgs, out \in WriteResults :
          Step("set_release_time", <<val>>, set_release_time(Self, val, out), NoFaults)

Call_set_hold_time ==
    /\ Alive
    /\ \E val \in ByteArgs, out \in WriteResults :
          Step("set_hold_time", <<val>>, set_hold_time(Self, val, out), NoFaults)

Call_gain ==
    /\ Alive
    /\ \E g \in ByteArgs, out \in WriteResults :
          Step("gain", <<g>>, gain(Self, g, out), NoFaults)

Call_noise_gate_threshold ==
    /\ Alive
    /\ \E val \in NoiseGateThreshold, out \in WriteResults :
          Step("noise_gate_threshold", <<val>>, noise_gate_threshold(Self, val, out),
               NoFaults)

Call_output_limiter_level ==
    /\ Alive
    /\ \E val \in ByteArgs, out \in WriteResults :
          Step("output_limiter_level", <<val>>, output_limiter_level(Self, val, out),
               NoFaults)

Call_compression_ratio ==
    /\ Alive
    /\ \E ratio \in CompressionRatio, out \in WriteResults :
          Step("compression_ratio", <<ratio>>, compression_ratio(Self, ratio, out),
               NoFaults)

Call_set_agc_preset ==
    /\ Alive
    /\ \E preset \in AgcPreset, outs \in WriteOracles :
          Step("set_agc_preset", <<preset>>, set_agc_preset(Self, preset, outs),
               NoFaults)

Next ==
    \/ Call_sync
    \/ Call_release
    \/ Call_device_reg
    \/ Call_speaker_enable
    \/ Call_get_faults
    \/ Call_disable_device
    \/ Call_noise_gate
    \/ Call_set_attack_time
    \/ Call_set_release_time
    \/ Call_set_hold_time
    \/ Call_gain
    \/ Call_noise_gate_threshold
    \/ Call_output_limiter_level
    \/ Call_compression_ratio
    \/ Call_set_agc_preset

Spec == Init /\ [][Next]_vars

\* the transactions issued by the most recent operation
Bus == SubSeq(log, last.start + 1, Len(log))


(***************************************************************************)
(* The masking specification: calls of the 6-bit magnitude setters on a    *)
(* fresh controller, the last one with every u8 argument value.            *)
(***************************************************************************)
MaskAlive == nops < MaxMaskOps /\ last.op # "release"

\* the last call of a run takes every u8 value, the calls before it the
\* argument values of the controller specification
MaskArgs == IF nops + 1 = MaxMaskOps THEN U8 ELSE ByteArgs

Mask_set_attack_time ==
    /\ MaskAlive
    /\ \E val \in MaskArgs, out \in WriteResults :
          Step("set_attack_time", <<val>>, set_attack_time(Self, val, out), NoFaults)

Mask_set_release_time ==
    /\ MaskAlive
    /\ \E val \in MaskArgs, out \in WriteResults :
          Step("set_release_time", <<val>>, set_release_time(Self, val, out), NoFaults)

Mask_set_hold_time ==
    /\ MaskAlive
    /\ \E val \in MaskArgs, out \in WriteResults :
          Step("set_hold_time", <<val>>, set_hold_time(Self, val, out), NoFaults)

Mask_gain ==
    /\ MaskAlive
    /\ \E g \in MaskArgs, out \in WriteResults :
          Step("gain", <<g>>, gain(Self, g, out), NoFaults)

NextMask ==
    \/ Mask_set_attack_time
    \/ Mask_set_release_time
    \/ Mask_set_hold_time
    \/ Mask_gain

SpecMask == Init /\ [][NextMask]_vars

(***************************************************************************)
(* The pure-function specification: Init draws one input (a register with  *)
(* legal field values, or a time in ms), one action applies the function.  *)
(***************************************************************************)
Register1Values ==
    [SPK_EN_R : BOOLEAN, SPK_EN_L : BOOLEAN, SWS : BOOLEAN, FAULT_R : BOOLEAN,
     FAULT_L : BOOLEAN, Thermal : BOOLEAN, NG_EN : BOOLEAN]

Register6Values ==
    [output_limiter_disable : BOOLEAN, noise_gate_threshold : 0..3,
     output_limiter_level : 0..31]

Register7Values == [max_gain : 0..15, compression_ratio : 0..3]

\* times in ms around every multiple of the quantum q up to MaxQuot * q, the
\* values of the unit tests, and the largest value TLC's integers hold
TimeInputs(q) ==
    {k * q + r : k \in 0..MaxQuot, r \in {0, 1, q - 1}}
    \cup {103600, 8631, 2147483647}

PureInputs ==
    {[kind |-> "Register1", ms |-> 0, reg |-> [RegisterMap_default EXCEPT !.reg1 = f]] :
        f \in Register1Values}
    \cup {[kind |-> "U6Register", ms |-> 0,
           reg |-> [RegisterMap_default EXCEPT !.hold_time = v]] : v \in 0..63}
    \cup {[kind |-> "Register6", ms |-> 0, reg |-> [RegisterMap_default EXCEPT !.reg6 = f]] :
        f \in Register6Values}
    \cup {[kind |-> "Register7", ms |-> 0, reg |-> [RegisterMap_default EXCEPT !.reg7 = f]] :
        f \in Register7Values}
    \cup {[kind |-> "release_time", ms |-> m, reg |-> RegisterMap_default] :
        m \in TimeInputs(RELEASE_QUANTUM)}
    \cup {[kind |-> "hold_time", ms |-> m, reg |-> RegisterMap_default] :
        m \in TimeInputs(HOLD_QUANTUM)}

InitPure ==
    /\ regmap = RegisterMap_default
    /\ log = <<>>
    /\ last = [op |-> "new", arg |-> <<>>, pre |-> RegisterMap_default, start |-> 0,
               ret |-> OkR(0), faults |-> NoFaults]
    /\ nops = 0
    /\ input \in PureInputs

\* the default register decodes the byte that the input register encodes to
Applied(op, rm, ret) ==
    /\ last.op = "new"
    /\ regmap' = rm
    /\ last' = [last EXCEPT !.op = op, !.ret = ret]
    /\ nops' = nops + 1
    /\ UNCHANGED <<log, input>>

Pure_Register1 ==
    /\ input.kind = "Register1"
    /\ Applied("roundtrip",
               [regmap EXCEPT !.reg1 = Register1_update(@, Register1_as_byte(input.reg.reg1))],
               OkR(Register1_as_byte(input.reg.reg1)))

Pure_U6Register ==
    /\ input.kind = "U6Register"
    /\ Applied("roundtrip",
               [regmap EXCEPT !.hold_time =
                   U6Register_update(@, U6Register_as_byte(input.reg.hold_time))],
               OkR(U6Register_as_byte(input.reg.hold_time)))

Pure_Register6 ==
    /\ input.kind = "Register6"
    /\ Applied("roundtrip",
               [regmap EXCEPT !.reg6 = Register6_update(@, Register6_as_byte(input.reg.reg6))],
               OkR(Register6_as_byte(input.reg.reg6)))

Pure_Register7 ==
    /\ input.kind = "Register7"
    /\ Applied("roundtrip",
               [regmap EXCEPT !.reg7 = Register7_update(@, Register7_as_byte(input.reg.reg7))],
               OkR(Register7_as_byte(input.reg.reg7)))

Pure_release_time_to_u6 ==
    /\ input.kind = "release_time"
    /\ Applied("release_time_to_u6", regmap, OkR(release_time_to_u6(input.ms)))

Pure_hold_time_to_u6 ==
    /\ input.kind = "hold_time"
    /\ Applied("hold_time_to_u6", regmap, OkR(hold_time_to_u6(input.ms)))

NextPure ==
    \/ Pure_Register1
    \/ Pure_U6Register
    \/ Pure_Register6
    \/ Pure_Register7
    \/ Pure_release_time_to_u6
    \/ Pure_hold_time_to_u6

SpecPure == InitPure /\ [][NextPure]_vars


(***************************************************************************)
(* The raw-read specification: the low-level read helper called directly   *)
(* with any register index, next to device_reg and get_faults.             *)
(***************************************************************************)
RawAlive == nops < MaxRawOps /\ last.op # "release"

\* outcomes of i2c.write_read on behalf of a direct read_reg
RawReadResults == {OkR(b) : b \in SyncBytes} \cup {ErrR(e) : e \in Errors}

Raw_read_reg ==
    /\ RawAlive
    /\ \E regidx \in IdxArgs, out \in RawReadResults :
          Step("read_reg", <<regidx>>, read_reg(Self, regidx, out), NoFaults)

Raw_device_reg ==
    /\ RawAlive
    /\ \E idx \in IdxArgs : Step("device_reg", <<idx>>, device_reg(Self, idx), NoFaults)

Raw_get_faults ==
    /\ RawAlive
    /\ \E out \in FaultReadResults :
          LET r == get_faults(Self, out) IN Step("get_faults", <<>>, r, r.faults)

NextRaw ==
    \/ Raw_read_reg
    \/ Raw_device_reg
    \/ Raw_get_faults

SpecRaw == Init /\ [][NextRaw]_vars

(***************************************************************************)
(***************************************************************************)
(* The register-1 specification: longer runs of the operations that touch  *)
(* register 1 (the three writers, get_faults, and sync).                   *)
(***************************************************************************)
StickyAlive == nops < MaxStickyOps /\ last.op # "release"

\* answers to sync's reads in these runs: register 1 reads either byte or
\* fails, registers 2..7 read 29
StickyReadOracles ==
    {o \in ReadOracles : ~o[1].ok \/ \A i \in 2..7 : o[i] = OkR(29)}

Sticky_speaker_enable ==
    /\ StickyAlive
    /\ \E le \in BOOLEAN, re \in BOOLEAN, out \in WriteResults :
          Step("speaker_enable", <<le, re>>, speaker_enable(Self, le, re, out), NoFaults)

Sticky_noise_gate ==
    /\ StickyAlive
    /\ \E enable \in BOOLEAN, out \in WriteResults :
          Step("noise_gate", <<enable>>, noise_gate(Self, enable, out), NoFaults)

Sticky_disable_device ==
    /\ StickyAlive
    /\ \E out \in WriteResults :
          Step("disable_device", <<>>, disable_device(Self, out), NoFaults)

Sticky_get_faults ==
    /\ StickyAlive
    /\ \E out \in FaultReadResults :
          LET r == get_faults(Self, out) IN Step("get_faults", <<>>, r, r.faults)

Sticky_sync ==
    /\ StickyAlive
    /\ \E outs \in StickyReadOracles : Step("sync", <<>>, sync(Self, outs), NoFaults)

NextSticky ==
    \/ Sticky_speaker_enable
    \/ Sticky_noise_gate
    \/ Sticky_disable_device
    \/ Sticky_get_faults
    \/ Sticky_sync

SpecSticky == Init /\ [][NextSticky]_vars

(* Properties.                                                             *)
(***************************************************************************)
\* bit k of byte b
Bit(b, k) == (b \div (2 ^ k)) % 2 = 1

\* the operations that mutate one register and write it, and that register
SingleRegOps ==
    {"speaker_enable", "disable_device", "noise_gate", "set_attack_time",
     "set_release_time", "set_hold_time", "gain", "noise_gate_threshold",
     "output_limiter_level", "compression_ratio"}

RegOf(op) ==
    CASE op \in {"speaker_enable", "disable_device", "noise_gate"} -> 1
      [] op = "set_attack_time" -> 2
      [] op = "set_release_time" -> 3
      [] op = "set_hold_time" -> 4
      [] op = "gain" -> 5
      [] op \in {"noise_gate_threshold", "output_limiter_level"} -> 6
      [] op = "compression_ratio" -> 7

\* the seven encodes of a register map, by address
Encodes(rm) == [i \in 1..7 |-> reg_as_byte(rm, i)]

\* C1: a freshly constructed register map (the shadow right after new())
\* encodes, address by address 1..7, to 0xC3, 0x05, 0x0B, 0x00, 0x06, 0x3A, 0xC2.
C1_DefaultEncode ==
    last.op = "new" => Encodes(regmap) = <<195, 5, 11, 0, 6, 58, 194>>

C1_Witness ==
    /\ last.op = "new"
    /\ nops = 0
    /\ log = <<>>
    /\ reg_as_byte(regmap, 1) = 195
    /\ reg_as_byte(regmap, 7) = 194

\* C2: a set_agc_preset call on which no transport write fails issues exactly
\* six transactions, all writes, to register addresses 2,3,4,5,6,7 in that
\* order: no write to address 1 and no read, for every preset and every
\* starting shadow.
C2_PresetOrder ==
    (last.op = "set_agc_preset" /\ \A i \in 1..Len(Bus) : Bus[i].res.ok) =>
        /\ Len(Bus) = 6
        /\ \A i \in 1..6 :
              /\ Bus[i].kind = "write"
              /\ Len(Bus[i].bytes) = 2
              /\ Bus[i].bytes[1] = i + 1
        /\ last.ret.ok

C2_Witness ==
    /\ last.op = "set_agc_preset"
    /\ last.arg = <<"Jazz">>
    /\ last.ret.ok
    /\ last.pre # RegisterMap_default
    /\ Len(Bus) = 6
    /\ Bus[1].bytes[1] = 2
    /\ Bus[6].bytes[1] = 7

\* C3: every get_faults issues one write-then-read of register 1; when the
\* read succeeds with byte b the shadow of register 1 is the decode of b and
\* the flags returned are bits 4, 3 and 2 of b, whatever the shadow held.
C3_FaultFreshness ==
    last.op = "get_faults" =>
        /\ Len(Bus) = 1
        /\ Bus[1].kind = "write_read"
        /\ Bus[1].bytes = <<1>>
        /\ Bus[1].res.ok =>
              LET b == Bus[1].res.val
              IN  /\ last.ret.ok
                  /\ regmap.reg1 = [SPK_EN_R |-> Bit(b, 7), SPK_EN_L |-> Bit(b, 6),
                                    SWS |-> Bit(b, 5), FAULT_R |-> Bit(b, 4),
                                    FAULT_L |-> Bit(b, 3), Thermal |-> Bit(b, 2),
                                    NG_EN |-> Bit(b, 0)]
                  /\ last.faults = [fault_r |-> Bit(b, 4), fault_l |-> Bit(b, 3),
                                    thermal |-> Bit(b, 2)]

\* a get_faults that answers "no fault" although the shadow held all three
C3_Witness ==
    /\ last.op = "get_faults"
    /\ last.ret.ok
    /\ last.pre.reg1.FAULT_R /\ last.pre.reg1.FAULT_L /\ last.pre.reg1.Thermal
    /\ last.faults = [fault_r |-> FALSE, fault_l |-> FALSE, thermal |-> FALSE]
    /\ Bus[1].res.val = 195

\* the value byte of the most recent write attempted to address a, or -1 when
\* there was none or a later read of that address was decoded (every read
\* that succeeds is decoded, by sync and by get_faults)
LastWriteTo(a) ==
    LET hits == {i \in 1..Len(log) :
                    /\ log[i].bytes[1] = a
                    /\ (log[i].kind = "write" \/ log[i].res.ok)}
    IN  IF hits = {} THEN -1
        ELSE LET m == CHOOSE i \in hits : \A j \in hits : j <= i
             IN  IF log[m].kind = "write" THEN log[m].bytes[2] ELSE -1

\* C4: in every reachable state, for each register address on which a write
\* has been attempted and no later read decoded, the shadow's encode of that
\* register is the value byte of the most recent write attempted to it.
C4_ShadowTracksLastWrite ==
    \A a \in 1..7 : LastWriteTo(a) # -1 => reg_as_byte(regmap, a) = LastWriteTo(a)

\* C5: when the transport write of a single-register operation fails with e,
\* the operation returns exactly e, issues no further transaction, and the
\* shadow keeps the newly set field: its encode is the byte whose write failed.
C5_WriteErrorNoRollback ==
    (last.op \in SingleRegOps /\ Len(Bus) >= 1 /\ ~Bus[1].res.ok) =>
        /\ last.ret = [ok |-> FALSE, val |-> 0, err |-> Bus[1].res.err]
        /\ last.ret.err \in Errors
        /\ Len(Bus) = 1
        /\ Bus[1].kind = "write"
        /\ Bus[1].bytes = <<RegOf(last.op), reg_as_byte(regmap, RegOf(last.op))>>
        /\ CASE last.op = "speaker_enable" ->
                   /\ regmap.reg1.SPK_EN_L = last.arg[1]
                   /\ regmap.reg1.SPK_EN_R = last.arg[2]
                   /\ Bit(Bus[1].bytes[2], 6) = last.arg[1]
                   /\ Bit(Bus[1].bytes[2], 7) = last.arg[2]
             [] last.op = "disable_device" ->
                   regmap.reg1.SWS /\ Bit(Bus[1].bytes[2], 5)
             [] last.op = "noise_gate" ->
                   regmap.reg1.NG_EN = last.arg[1] /\ Bit(Bus[1].bytes[2], 0) = last.arg[1]
             [] last.op = "set_attack_time" ->
                   regmap.atk_time = last.arg[1] % 64 /\ Bus[1].bytes[2] = last.arg[1] % 64
             [] last.op = "set_release_time" ->
                   regmap.rel_time = last.arg[1] % 64 /\ Bus[1].bytes[2] = last.arg[1] % 64
             [] last.op = "set_hold_time" ->
                   regmap.hold_time = last.arg[1] % 64 /\ Bus[1].bytes[2] = last.arg[1] % 64
             [] last.op = "gain" ->
                   regmap.fixedGain = last.arg[1] % 64 /\ Bus[1].bytes[2] = last.arg[1] % 64
             [] last.op = "noise_gate_threshold" ->
                   /\ regmap.reg6.noise_gate_threshold =
                         (CASE last.arg[1] = "Ngt1mV" -> 0 [] last.arg[1] = "Ngt4mV" -> 1
                            [] last.arg[1] = "Ngt10mV" -> 2 [] last.arg[1] = "Ngt20mV" -> 3)
                   /\ (Bus[1].bytes[2] \div 32) % 4 = regmap.reg6.noise_gate_threshold
             [] last.op = "output_limiter_level" ->
                   /\ regmap.reg6.output_limiter_level = last.arg[1]
                   /\ Bus[1].bytes[2] % 32 = last.arg[1] % 32
             [] last.op = "compression_ratio" ->
                   /\ regmap.reg7.compression_ratio =
                         (CASE last.arg[1] = "Ratio1" -> 0 [] last.arg[1] = "Ratio2" -> 1
                            [] last.arg[1] = "Ratio4" -> 2 [] last.arg[1] = "Ratio8" -> 3)
                   /\ Bus[1].bytes[2] % 4 = regmap.reg7.compression_ratio

\* a failed set_attack_time that left a new attack time in the shadow
C5_Witness ==
    /\ last.op = "set_attack_time"
    /\ last.ret = [ok |-> FALSE, val |-> 0, err |-> "E2"]
    /\ last.arg = <<200>>
    /\ regmap.atk_time = 8
    /\ last.pre.atk_time = 5
    /\ Len(Bus) = 1

\* C6: in every reachable shadow every magnitude field fits its declared bit
\* width (6-bit magnitudes <= 63, threshold <= 3, limiter level <= 31, max
\* gain <= 15, ratio <= 3), and in the encodes of registers 6 and 7 every
\* field occupies its own bits only.
C6_FieldWidth ==
    /\ regmap.atk_time <= 63
    /\ regmap.rel_time <= 63
    /\ regmap.hold_time <= 63
    /\ regmap.fixedGain <= 63
    /\ regmap.reg6.noise_gate_threshold <= 3
    /\ regmap.reg6.output_limiter_level <= 31
    /\ regmap.reg7.max_gain <= 15
    /\ regmap.reg7.compression_ratio <= 3
    /\ LET b6 == reg_as_byte(regmap, 6)
           b7 == reg_as_byte(regmap, 7)
       IN  /\ Bit(b6, 7) = regmap.reg6.output_limiter_disable
           /\ (b6 \div 32) % 4 = regmap.reg6.noise_gate_threshold % 4
           /\ b6 % 32 = regmap.reg6.output_limiter_level % 32
           /\ b7 \div 16 = regmap.reg7.max_gain % 16
           /\ b7 % 16 = regmap.reg7.compression_ratio % 4

\* C7: for every register kind and every legal field combination, decoding
\* (update) the byte produced by encode (as_byte) yields the same fields.
C7_RoundTrip ==
    last.op = "roundtrip" =>
        CASE input.kind = "Register1" -> regmap.reg1 = input.reg.reg1
          [] input.kind = "U6Register" -> regmap.hold_time = input.reg.hold_time
          [] input.kind = "Register6" -> regmap.reg6 = input.reg.reg6
          [] input.kind = "Register7" -> regmap.reg7 = input.reg.reg7

\* a round trip of a register 7 whose fields all differ from the defaults the
\* decoding register started with
C7_Witness ==
    /\ last.op = "roundtrip"
    /\ input.kind = "Register7"
    /\ input.reg.reg7 = [max_gain |-> 15, compression_ratio |-> 3]
    /\ last.ret.val = 243
    /\ regmap.reg7 = [max_gain |-> 15, compression_ratio |-> 3]

\* C8: for every u8 value v, set_attack_time(v), set_release_time(v),
\* set_hold_time(v) and gain(v) fail only when the transport write fails; the
\* register (2, 3, 4, 5) then encodes to v & 0x3F, which is the value byte
\* written, and bits 6 and 7 of the written byte are 0.
C8_Masking ==
    last.op \in {"set_attack_time", "set_release_time", "set_hold_time", "gain"} =>
        LET v == last.arg[1]
            a == RegOf(last.op)
        IN  /\ Len(Bus) = 1
            /\ Bus[1].kind = "write"
            /\ Bus[1].bytes = <<a, v % 64>>
            /\ ~Bit(Bus[1].bytes[2], 6) /\ ~Bit(Bus[1].bytes[2], 7)
            /\ reg_as_byte(regmap, a) = v % 64
            /\ last.ret = Bus[1].res

C8_Witness ==
    /\ last.op = "gain"
    /\ last.arg = <<200>>
    /\ last.ret.ok
    /\ Bus[1].bytes = <<5, 8>>
    /\ reg_as_byte(regmap, 5) = 8

\* C9: in every reachable shadow state the encode of register 1 has bit 1
\* set, also after a byte with bit 1 clear was decoded, so every value byte
\* written to register address 1 has bit 1 set.
C9_ReservedBit ==
    /\ Bit(reg_as_byte(regmap, 1), 1)
    /\ \A i \in 1..Len(log) :
          (log[i].kind = "write" /\ log[i].bytes[1] = 1) => Bit(log[i].bytes[2], 1)

\* a write of register 1 that follows the decode of a byte with bit 1 clear
C9_Witness ==
    \E i \in 1..Len(log), j \in 1..Len(log) :
        /\ i < j
        /\ log[i].kind = "write_read" /\ log[i].bytes = <<1>> /\ log[i].res.ok
        /\ ~Bit(log[i].res.val, 1)
        /\ log[j].kind = "write" /\ log[j].bytes[1] = 1
        /\ Bit(log[j].bytes[2], 1)

\* C10 as stated: the release-time conversion returns floor(ms / 1644) and the
\* hold-time conversion floor(ms / 137).
C10_FloorQuotient ==
    /\ last.op = "release_time_to_u6" => last.ret.val = input.ms \div 1644
    /\ last.op = "hold_time_to_u6" => last.ret.val = input.ms \div 137

\* C10 amended: the conversions return floor(ms / 1644) mod 256 and
\* floor(ms / 137) mod 256 (the quotient cast to u8); release 1644 -> 1,
\* 4932 -> 3, 103600 -> 63, hold 137 -> 1, 411 -> 3, 8631 -> 63; for every
\* input whose quotient is at most 255 (so also at most 63) the result is the
\* quotient unchanged.
C10_FloorQuotientMod256 ==
    /\ last.op = "release_time_to_u6" =>
          /\ last.ret.val = (input.ms \div 1644) % 256
          /\ input.ms \div 1644 <= 255 => last.ret.val = input.ms \div 1644
          /\ input.ms = 1644 => last.ret.val = 1
          /\ input.ms = 4932 => last.ret.val = 3
          /\ input.ms = 103600 => last.ret.val = 63
    /\ last.op = "hold_time_to_u6" =>
          /\ last.ret.val = (input.ms \div 137) % 256
          /\ input.ms \div 137 <= 255 => last.ret.val = input.ms \div 137
          /\ input.ms = 137 => last.ret.val = 1
          /\ input.ms = 411 => last.ret.val = 3
          /\ input.ms = 8631 => last.ret.val = 63

\* a release time whose quotient, 256, does not fit the u8 result
C10_Witness ==
    /\ last.op = "release_time_to_u6"
    /\ input.ms = 420864
    /\ last.ret.val = 0

\* the shadow of the register at address a, and the fields that byte b decodes
\* to at that address (by the bit layout of the register, in plain arithmetic)
RegField(rm, a) ==
    CASE a = 1 -> rm.reg1
      [] a = 2 -> rm.atk_time
      [] a = 3 -> rm.rel_time
      [] a = 4 -> rm.hold_time
      [] a = 5 -> rm.fixedGain
      [] a = 6 -> rm.reg6
      [] a = 7 -> rm.reg7

DecodedField(a, b) ==
    CASE a = 1 -> [SPK_EN_R |-> Bit(b, 7), SPK_EN_L |-> Bit(b, 6), SWS |-> Bit(b, 5),
                   FAULT_R |-> Bit(b, 4), FAULT_L |-> Bit(b, 3), Thermal |-> Bit(b, 2),
                   NG_EN |-> Bit(b, 0)]
      [] a \in 2..5 -> b % 64
      [] a = 6 -> [output_limiter_disable |-> Bit(b, 7),
                   noise_gate_threshold |-> (b \div 32) % 4,
                   output_limiter_level |-> b % 32]
      [] a = 7 -> [max_gain |-> b \div 16, compression_ratio |-> b % 4]

\* C11: a sync on which no read fails issues exactly seven write-then-read
\* transactions, for addresses 1..7 in ascending order, and no write;
\* afterwards the shadow of every register is the decode of the byte read for
\* its address, whatever the shadow held before.
C11_SyncReadsAll ==
    (last.op = "sync" /\ \A i \in 1..Len(Bus) : Bus[i].res.ok) =>
        /\ Len(Bus) = 7
        /\ \A i \in 1..7 :
              /\ Bus[i].kind = "write_read"
              /\ Bus[i].bytes = <<i>>
              /\ RegField(regmap, i) = DecodedField(i, Bus[i].res.val)
        /\ last.ret.ok

\* a sync after an operation that changed the shadow, all seven registers
\* overwritten with what was read
C11_Witness ==
    /\ last.op = "sync"
    /\ last.ret.ok
    /\ Len(Bus) = 7
    /\ last.pre # RegisterMap_default
    /\ \A i \in 1..7 : Bus[i].res.val = 226
    /\ regmap.fixedGain = 34
    /\ regmap.reg7 = [max_gain |-> 14, compression_ratio |-> 2]
    /\ \A i \in 1..7 : RegField(regmap, i) # RegField(last.pre, i)

\* C12: read_reg with register address 0 or an address >= 8 returns Ok(0),
\* not an error, and issues no transport transaction; the shadow encode
\* lookup (reg_as_byte, device_reg) for such an address returns 0 as well.
C12_InvalidAddressReadsZero ==
    /\ (last.op = "read_reg" /\ last.arg[1] \notin 1..7) =>
          /\ last.ret = [ok |-> TRUE, val |-> 0, err |-> "none"]
          /\ Bus = <<>>
          /\ regmap = last.pre
    /\ (last.op = "device_reg" /\ last.arg[1] \notin 1..7) =>
          /\ last.ret = [ok |-> TRUE, val |-> 0, err |-> "none"]
          /\ Bus = <<>>
    /\ \A idx \in IdxArgs \ (1..7) : reg_as_byte(regmap, idx) = 0

\* a read of address 8 that follows a real read of a register
C12_Witness ==
    /\ last.op = "read_reg"
    /\ last.arg = <<8>>
    /\ last.ret = [ok |-> TRUE, val |-> 0, err |-> "none"]
    /\ Len(log) = 1
    /\ log[1].kind = "write_read"
    /\ Bus = <<>>

\* the byte the register at address a of rm encodes to, by the bit layout of
\* the register in plain arithmetic
B2N(x) == IF x THEN 1 ELSE 0

EncodedField(rm, a) ==
    CASE a = 1 -> 128 * B2N(rm.reg1.SPK_EN_R) + 64 * B2N(rm.reg1.SPK_EN_L)
                  + 32 * B2N(rm.reg1.SWS) + 16 * B2N(rm.reg1.FAULT_R)
                  + 8 * B2N(rm.reg1.FAULT_L) + 4 * B2N(rm.reg1.Thermal)
                  + 2 + B2N(rm.reg1.NG_EN)
      [] a = 2 -> rm.atk_time % 64
      [] a = 3 -> rm.rel_time % 64
      [] a = 4 -> rm.hold_time % 64
      [] a = 5 -> rm.fixedGain % 64
      [] a = 6 -> 128 * B2N(rm.reg6.output_limiter_disable)
                  + 32 * (rm.reg6.noise_gate_threshold % 4)
                  + (rm.reg6.output_limiter_level % 32)
      [] a = 7 -> 16 * (rm.reg7.max_gain % 16) + (rm.reg7.compression_ratio % 4)

\* C13: device_reg(address) for any address 1..7, in any reachable state,
\* returns Ok(the shadow's current encode of that register), issues no
\* transport read or write and leaves every shadow field unchanged.
C13_DeviceRegPure ==
    (last.op = "device_reg" /\ last.arg[1] \in 1..7) =>
        /\ last.ret = [ok |-> TRUE, val |-> EncodedField(regmap, last.arg[1]), err |-> "none"]
        /\ Bus = <<>>
        /\ Len(log) = last.start
        /\ regmap = last.pre

\* device_reg(6) after output_limiter_level(200) left 200 in the shadow
C13_Witness ==
    /\ last.op = "device_reg"
    /\ last.arg = <<6>>
    /\ regmap.reg6.output_limiter_level = 200
    /\ last.ret = [ok |-> TRUE, val |-> 40, err |-> "none"]
    /\ Len(log) = 1

\* C14: every single-register operation issues exactly one transport
\* transaction: a write to bus address 0x58 of the two bytes [register
\* address, value], value being the shadow's encode of that register after the
\* field mutation; no read, no write to another address, and the shadow of
\* every other register is unchanged.
C14_SingleWriteShape ==
    last.op \in SingleRegOps =>
        LET a == RegOf(last.op)
        IN  /\ Len(Bus) = 1
            /\ Bus[1].kind = "write"
            /\ Bus[1].addr = 88
            /\ Bus[1].bytes = <<a, EncodedField(regmap, a)>>
            /\ \A o \in (1..7) \ {a} : RegField(regmap, o) = RegField(last.pre, o)

\* compression_ratio(8:1) on a shadow that an earlier operation changed
C14_Witness ==
    /\ last.op = "compression_ratio"
    /\ last.arg = <<"Ratio8">>
    /\ last.pre # RegisterMap_default
    /\ last.pre.reg7 = [max_gain |-> 12, compression_ratio |-> 2]
    /\ Bus = <<[kind |-> "write", addr |-> 88, bytes |-> <<7, 195>>,
                res |-> [ok |-> TRUE, val |-> 0, err |-> "none"]]>>

\* the datasheet tuple of a preset: <<ratio code, attack code, release ms,
\* hold ms, fixed gain, limiter-level byte>>
PresetDatasheet(p) ==
    CASE p = "Pop"       -> <<2, 2, 986, 137, 6, 60>>
      [] p = "Classical" -> <<1, 2, 1150, 137, 6, 61>>
      [] p = "Jazz"      -> <<1, 6, 3288, 0, 6, 61>>
      [] p = "Rap"       -> <<2, 2, 1640, 0, 6, 60>>
      [] p = "Rock"      -> <<1, 3, 4110, 0, 6, 61>>
      [] p = "Voice"     -> <<2, 2, 1640, 0, 6, 62>>

\* the value byte preset p puts in the register at address a (2..7), given the
\* shadow `pre` it is applied to
PresetByte(p, pre, a) ==
    LET t == PresetDatasheet(p)
    IN  CASE a = 2 -> t[2]
          [] a = 3 -> (t[3] \div 1644) % 64
          [] a = 4 -> (t[4] \div 137) % 64
          [] a = 5 -> t[5]
          [] a = 6 -> 128 * B2N(pre.reg6.output_limiter_disable)
                      + 32 * (pre.reg6.noise_gate_threshold % 4) + (t[6] % 32)
          [] a = 7 -> 16 * (pre.reg7.max_gain % 16) + t[1]

\* C15: for every preset the value bytes written are those of its datasheet
\* tuple: register 2 the attack code, 3 floor(release ms / 1644) & 0x3F,
\* 4 floor(hold ms / 137) & 0x3F, 5 the fixed gain 6, 6 the low 5 bits of the
\* limiter-level byte with the limiter-disable flag and the threshold code of
\* the shadow before the call, 7 the ratio code with the max gain of the shadow
\* before the call; register 1, limiter-disable, threshold and max gain of
\* the shadow stay as they were.
C15_PresetValues ==
    last.op = "set_agc_preset" =>
        /\ \A i \in 1..Len(Bus) :
              /\ Bus[i].bytes[1] \in 2..7
              /\ Bus[i].bytes[2] = PresetByte(last.arg[1], last.pre, Bus[i].bytes[1])
        /\ last.ret.ok => Len(Bus) = 6
        /\ regmap.reg1 = last.pre.reg1
        /\ regmap.reg6.output_limiter_disable = last.pre.reg6.output_limiter_disable
        /\ regmap.reg6.noise_gate_threshold = last.pre.reg6.noise_gate_threshold
        /\ regmap.reg7.max_gain = last.pre.reg7.max_gain

\* Pop applied to a shadow whose registers 6 and 7 a sync had changed
C15_Witness ==
    /\ last.op = "set_agc_preset"
    /\ last.arg = <<"Pop">>
    /\ last.ret.ok
    /\ last.pre.reg6 = [output_limiter_disable |-> TRUE, noise_gate_threshold |-> 3,
                        output_limiter_level |-> 2]
    /\ last.pre.reg7 = [max_gain |-> 14, compression_ratio |-> 2]
    /\ [i \in 1..6 |-> Bus[i].bytes] =
          <<(<<2, 2>>), (<<3, 0>>), (<<4, 1>>), (<<5, 6>>), (<<6, 252>>), (<<7, 226>>)>>

\* what the device holds at register address a after the transactions lg: the
\* value byte of the last write to a that succeeded, or -1 when there was
\* none (the device still holds what it held at new())
DeviceHolds(lg, a) ==
    LET hits == {i \in 1..Len(lg) :
                    lg[i].kind = "write" /\ lg[i].bytes[1] = a /\ lg[i].res.ok}
    IN  IF hits = {} THEN -1
        ELSE lg[CHOOSE i \in hits : \A j \in hits : j <= i].bytes[2]

\* the transactions issued before the most recent operation
LogBefore == SubSeq(log, 1, last.start)

\* C16: when the k-th write of set_agc_preset (to address k+1) fails with e,
\* the call returns e at once: the writes to addresses 2..k were issued with
\* the new preset values and succeeded, the failed write is the last
\* transaction (no write above k+1, no retry), so the device holds the new
\* values in registers 2..k and its previous values in the others.
C16_PresetPartialFailure ==
    (last.op = "set_agc_preset" /\ \E i \in 1..Len(Bus) : ~Bus[i].res.ok) =>
        LET k == Len(Bus)
            p == last.arg[1]
        IN  /\ k \in 1..6
            /\ ~Bus[k].res.ok
            /\ last.ret = [ok |-> FALSE, val |-> 0, err |-> Bus[k].res.err]
            /\ \A i \in 1..k :
                  /\ Bus[i].kind = "write"
                  /\ Bus[i].bytes = <<i + 1, PresetByte(p, last.pre, i + 1)>>
                  /\ i < k => Bus[i].res.ok
            /\ \A a \in 2..k : DeviceHolds(log, a) = PresetByte(p, last.pre, a)
            /\ \A a \in {1} \cup ((k + 1)..7) :
                  DeviceHolds(log, a) = DeviceHolds(LogBefore, a)

\* Jazz failing at its fourth write (register 5) after gain(200) had put 8 in
\* the device's register 5
C16_Witness ==
    /\ last.op = "set_agc_preset"
    /\ last.arg = <<"Jazz">>
    /\ last.ret = [ok |-> FALSE, val |-> 0, err |-> "E2"]
    /\ Len(Bus) = 4
    /\ DeviceHolds(LogBefore, 5) = 8
    /\ DeviceHolds(log, 5) = 8
    /\ DeviceHolds(log, 2) = 6
    /\ DeviceHolds(log, 3) = 2
    /\ DeviceHolds(log, 4) = 0
    /\ DeviceHolds(log, 6) = -1

\* the bit positions at which the bytes a and b differ
DiffBits(a, b) == {k \in 0..7 : Bit(a, k) # Bit(b, k)}

\* C17: compared with the encode of the shadow's register 1 before the call,
\* the byte written by disable_device differs at most in bit 5, which is 1;
\* the byte written by noise_gate(e) at most in bit 0, which is e; the byte
\* written by speaker_enable(l, r) at most in bits 6 and 7, which are l and r.
\* No other flag is cleared or set: fault and thermal bits decoded earlier are
\* carried into the write.
C17_Register1Frame ==
    (last.op \in {"disable_device", "noise_gate", "speaker_enable"}) =>
        /\ Len(Bus) = 1
        /\ Bus[1].kind = "write"
        /\ Bus[1].bytes[1] = 1
        /\ LET before  == EncodedField(last.pre, 1)
               written == Bus[1].bytes[2]
           IN  /\ last.op = "disable_device" =>
                     /\ DiffBits(written, before) \subseteq {5}
                     /\ Bit(written, 5)
               /\ last.op = "noise_gate" =>
                     /\ DiffBits(written, before) \subseteq {0}
                     /\ Bit(written, 0) = last.arg[1]
               /\ last.op = "speaker_enable" =>
                     /\ DiffBits(written, before) \subseteq {6, 7}
                     /\ Bit(written, 6) = last.arg[1]
                     /\ Bit(written, 7) = last.arg[2]

\* get_faults decoded 0x1C (both faults and thermal set, shutdown clear), then
\* disable_device wrote 0x3E: the three fault bits carried, bit 5 added
C17_Witness ==
    /\ last.op = "disable_device"
    /\ last.pre.reg1.FAULT_R /\ last.pre.reg1.FAULT_L /\ last.pre.reg1.Thermal
    /\ ~last.pre.reg1.SWS
    /\ Len(Bus) = 1
    /\ Bus[1].bytes = <<1, 62>>
    /\ DiffBits(62, EncodedField(last.pre, 1)) = {5}

\* C18: set_agc_preset assigns all six shadow fields before its first write.
\* After a preset that failed at its k-th write the shadow of registers 2..7
\* holds the complete new preset, whatever k is, while the device holds the
\* new values only in registers 2..k and its previous values in k+1..7.
C18_PresetShadowComplete ==
    (last.op = "set_agc_preset" /\ ~last.ret.ok) =>
        LET k == Len(Bus)
            p == last.arg[1]
            t == PresetDatasheet(p)
        IN  /\ regmap.atk_time = t[2]
            /\ regmap.rel_time = (t[3] \div 1644) % 64
            /\ regmap.hold_time = (t[4] \div 137) % 64
            /\ regmap.fixedGain = t[5]
            /\ regmap.reg6.output_limiter_level = t[6]
            /\ regmap.reg7.compression_ratio = t[1]
            /\ \A a \in 2..7 : reg_as_byte(regmap, a) = PresetByte(p, last.pre, a)
            /\ \A a \in 2..7 :
                  DeviceHolds(log, a) = IF a <= k THEN PresetByte(p, last.pre, a)
                                        ELSE DeviceHolds(LogBefore, a)

\* Jazz as the first operation, failing at its third write (register 4): the
\* shadow already has Jazz's limiter level and ratio, the device has only
\* registers 2 and 3
C18_Witness ==
    /\ last.op = "set_agc_preset"
    /\ last.arg = <<"Jazz">>
    /\ ~last.ret.ok
    /\ Len(Bus) = 3
    /\ last.pre = RegisterMap_default
    /\ regmap.reg6.output_limiter_level = 61
    /\ regmap.reg7.compression_ratio = 1
    /\ reg_as_byte(regmap, 7) # reg_as_byte(last.pre, 7)
    /\ DeviceHolds(log, 2) = 6
    /\ DeviceHolds(log, 3) = 2
    /\ \A a \in 4..7 : DeviceHolds(log, a) = -1

\* C19: when the read of register i fails during sync with error e, sync
\* returns e at once and issues no read above i; the shadow of registers
\* 1..i-1 is the decode of the bytes just read and the shadow of registers
\* i..7 is what it was before the call.  A get_faults whose read fails
\* returns the error, no flags, and leaves the whole shadow as it was.
C19_ReadFailure ==
    /\ (last.op = "sync" /\ \E j \in 1..Len(Bus) : ~Bus[j].res.ok) =>
          LET i == Len(Bus)
          IN  /\ i \in 1..7
              /\ \A j \in 1..i :
                    /\ Bus[j].kind = "write_read"
                    /\ Bus[j].bytes = <<j>>
                    /\ Bus[j].res.ok <=> j < i
              /\ last.ret = [ok |-> FALSE, val |-> 0, err |-> Bus[i].res.err]
              /\ \A a \in 1..(i - 1) :
                    RegField(regmap, a) = DecodedField(a, Bus[a].res.val)
              /\ \A a \in i..7 : RegField(regmap, a) = RegField(last.pre, a)
    /\ (last.op = "get_faults" /\ \E j \in 1..Len(Bus) : ~Bus[j].res.ok) =>
          /\ Len(Bus) = 1
          /\ Bus[1].kind = "write_read"
          /\ Bus[1].bytes = <<1>>
          /\ last.ret = [ok |-> FALSE, val |-> 0, err |-> Bus[1].res.err]
          /\ last.faults = NoFaults
          /\ regmap = last.pre

\* a first sync whose third read fails with E1: registers 1 and 2 decoded from
\* the bytes read, release time and the rest still at their defaults
C19_Witness ==
    /\ last.op = "sync"
    /\ last.pre = RegisterMap_default
    /\ last.ret = [ok |-> FALSE, val |-> 0, err |-> "E1"]
    /\ Len(Bus) = 3
    /\ regmap.reg1 = DecodedField(1, Bus[1].res.val)
    /\ regmap.reg1 # last.pre.reg1
    /\ regmap.atk_time = Bus[2].res.val % 64
    /\ regmap.atk_time # last.pre.atk_time
    /\ regmap.rel_time = 11
    /\ regmap.reg7 = Register7_default

\* a write of register 1, as speaker_enable, noise_gate and disable_device
\* issue it (disable_device always issues one with bit 5 set)
IsReg1Write(t) == t.kind = "write" /\ t.bytes[1] = 1

\* a read of register 1 that succeeded with bit 5 clear: what sync and
\* get_faults decode into a shadow that is no longer shut down
ReadsShutdownClear(t) ==
    t.kind = "write_read" /\ t.bytes = <<1>> /\ t.res.ok /\ ~Bit(t.res.val, 5)

\* C20: shutdown is sticky.  disable_device writes register 1 with bit 5 set
\* and leaves the shadow's shutdown flag set, whether or not the write
\* succeeded; after a register-1 write with bit 5 set, every later register-1
\* write has bit 5 set as long as no read of register 1 in between returned a
\* byte with bit 5 clear.  In particular a sequence of writes only never
\* clears the bit again.
C20_ShutdownSticky ==
    /\ last.op = "disable_device" =>
          /\ Len(Bus) = 1
          /\ IsReg1Write(Bus[1])
          /\ Bit(Bus[1].bytes[2], 5)
          /\ regmap.reg1.SWS
    /\ \A i \in 1..Len(log) : \A j \in (i + 1)..Len(log) :
          ( /\ IsReg1Write(log[i]) /\ Bit(log[i].bytes[2], 5)
            /\ IsReg1Write(log[j])
            /\ \A m \in (i + 1)..(j - 1) : ~ReadsShutdownClear(log[m]) )
          => Bit(log[j].bytes[2], 5)

\* disable_device first, its write failing (0xE3 from the defaults), then
\* noise_gate, then speaker_enable(false, false): all three writes carry bit 5
C20_Witness ==
    /\ nops = 3
    /\ Len(log) = 3
    /\ log[1].bytes = <<1, 227>>
    /\ ~log[1].res.ok
    /\ IsReg1Write(log[2])
    /\ last.op = "speaker_enable"
    /\ last.arg = <<FALSE, FALSE>>
    /\ Bus[1].bytes = <<1, 34>> \/ Bus[1].bytes = <<1, 35>>
    /\ regmap.reg1.SWS

============================================================================
